---------------------------- MODULE Spec2Model ----------------------------
(***************************************************************************)
(* EIP-3009 authorizations of erc20-rs: the EIP-712 digest engine          *)
(* (src/signing/eip712.rs), the signing helpers                            *)
(* (src/signing/authorization.rs), the parameter objects (src/types.rs),   *)
(* the submitting functions (src/eip3009.rs) and the lazily read token     *)
(* (src/lazy_token.rs), as a state machine whose actions are the public    *)
(* functions, called with inputs drawn from small sets, and the steps of   *)
(* the calls that tasks make at the same time.                             *)
(*                                                                         *)
(* Byte strings are sequences of 0..255.  keccak256 is computed (the       *)
(* Keccak-f[1600] sponge), not assumed.  ECDSA is symbolic: a signature    *)
(* names the key, the prehash and the k value it was made from.            *)
(***************************************************************************)
EXTENDS Integers, Sequences, FiniteSets

VARIABLES first, last, between, tasks, token, contract

vars == <<first, last, between, tasks, token, contract>>

\* Bounds of the model.
NumDomains == 2     \* distinct domain separators the callers use
MaxK       == 2     \* distinct k values a signer may draw for one prehash
NumTasks   == 2     \* tasks that run at the same time
MaxQueries == 2     \* queries the contract answers

(***************************************************************************)
(* Bytes and integers                                                      *)
(***************************************************************************)

\* [b; n]
Repeat(b, n) == SubSeq([i \in 1..n |-> b], 1, n)

\* A u64 is its eight base-256 digits, most significant first.
U64(n) == Repeat(0, 4) \o <<(n \div 16777216) % 256, (n \div 65536) % 256,
                            (n \div 256) % 256, n % 256>>

U64_MAX == Repeat(255, 8)

\* A U256 is four u64 limbs, least significant first.
U256_from(x) == <<x, U64(0), U64(0), U64(0)>>

\* Variant of to_be_bytes that serialises the three high limbs only.
to_be_bytes_high_limbs(u) == u[4] \o u[3] \o u[2] \o Repeat(0, 8)

\* The 32-byte big-endian serialisation of a U256.
to_be_bytes(u) == u[4] \o u[3] \o u[2] \o u[1]

\* address!("00000000000000000000000000000000000000xx")
Address(low) == Repeat(0, 19) \o <<low>>

\* u64 addition, digit by digit: the carry into digit i, the sum modulo 2^64
\* and whether the sum leaves the 64 bits.
RECURSIVE CarryInto(_, _, _)
CarryInto(a, b, i) ==
    IF i = 8 THEN 0 ELSE (a[i + 1] + b[i + 1] + CarryInto(a, b, i + 1)) \div 256

wrapping_add(a, b) ==
    SubSeq([i \in 1..8 |-> (a[i] + b[i] + CarryInto(a, b, i)) % 256], 1, 8)

overflowing(a, b) == a[1] + b[1] + CarryInto(a, b, 1) >= 256

\* a < b for two u64.
u64_lt(a, b) ==
    \E i \in 1..8 : a[i] < b[i] /\ \A j \in 1..(i - 1) : a[j] = b[j]

\* How a call ends: it returns a value or it panics.
Returned(value) == [panicked |-> FALSE, value |-> value]

Panicked(message) == [panicked |-> TRUE, message |-> message]

\* `a + b` on u64: a build with overflow checks (the dev and test profiles)
\* panics when the sum overflows, a build without them (the release profile)
\* wraps.
u64_add(a, b, overflow_checks) ==
    IF overflowing(a, b) /\ overflow_checks
    THEN Panicked("attempt to add with overflow")
    ELSE Returned(wrapping_add(a, b))

(***************************************************************************)
(* keccak256: Keccak-f[1600], rate 1088, capacity 512, padding 0x01..0x80. *)
(* A lane is the set of its set bit positions, bit 0 least significant;    *)
(* the state is the 25 lanes, lane (x, y) at index x + 5y + 1.             *)
(***************************************************************************)

Xor64(a, b) == (a \ b) \cup (b \ a)

RotL64(a, n) == {(i + n) % 64 : i \in a}

Lanes(f) == SubSeq(f, 1, 25)

LaneIndex(x, y) == (x % 5) + 5 * (y % 5) + 1

RHO ==
    << 0,  1, 62, 28, 27,
      36, 44,  6, 55, 20,
       3, 10, 43, 25, 39,
      41, 45, 15, 21,  8,
      18,  2, 61, 56, 14 >>

RC ==
    << {0}, {1, 7, 15}, {1, 3, 7, 15, 63}, {15, 31, 63}, {0, 1, 3, 7, 15}, {0, 31},
       {0, 7, 15, 31, 63}, {0, 3, 15, 63}, {1, 3, 7}, {3, 7}, {0, 3, 15, 31},
       {1, 3, 31}, {0, 1, 3, 7, 15, 31}, {0, 1, 3, 7, 63}, {0, 3, 7, 15, 63},
       {0, 1, 15, 63}, {1, 15, 63}, {7, 63}, {1, 3, 15}, {1, 3, 31, 63},
       {0, 7, 15, 31, 63}, {7, 15, 63}, {0, 31}, {3, 15, 31, 63} >>

\* One round: theta, rho and pi, chi, iota.
KeccakRound(A, rc) ==
    LET C == SubSeq([x \in 1..5 |->
                 Xor64(Xor64(Xor64(Xor64(A[x], A[x + 5]), A[x + 10]), A[x + 15]),
                       A[x + 20])], 1, 5)
        D == SubSeq([x \in 1..5 |->
                 Xor64(C[((x + 3) % 5) + 1], RotL64(C[(x % 5) + 1], 1))], 1, 5)
        T == Lanes([i \in 1..25 |-> Xor64(A[i], D[((i - 1) % 5) + 1])])
        B == Lanes([i \in 1..25 |->
                 LET x == (i - 1) % 5
                     y == (i - 1) \div 5
                     s == LaneIndex(x + 3 * y, x)
                 IN  RotL64(T[s], RHO[s])])
        E == Lanes([i \in 1..25 |->
                 LET x == (i - 1) % 5
                     y == (i - 1) \div 5
                 IN  Xor64(B[i], B[LaneIndex(x + 2, y)] \ B[LaneIndex(x + 1, y)])])
    IN  Lanes([i \in 1..25 |-> IF i = 1 THEN Xor64(E[1], rc) ELSE E[i]])

RECURSIVE KeccakF(_, _)
KeccakF(A, r) ==
    IF Len(A) = 25 /\ r <= Len(RC) THEN KeccakF(KeccakRound(A, RC[r]), r + 1) ELSE A

RATE == 136

ByteBits(b) == {k \in 0..7 : (b \div (2 ^ k)) % 2 = 1}

\* Lane j of a block: its bytes 8(j-1)+1 .. 8j, little-endian.
BlockLane(blk, j) ==
    UNION {{8 * k + t : t \in ByteBits(blk[8 * (j - 1) + k + 1])} : k \in 0..7}

KeccakPad(data) ==
    LET n     == Len(data)
        total == ((n \div RATE) + 1) * RATE
    IN  SubSeq([i \in 1..total |->
                   IF i <= n THEN data[i]
                   ELSE (IF i = n + 1 THEN 1 ELSE 0) + (IF i = total THEN 128 ELSE 0)],
               1, total)

KeccakAbsorb(A, blk) ==
    Lanes([i \in 1..25 |->
              IF i <= RATE \div 8 THEN Xor64(A[i], BlockLane(blk, i)) ELSE A[i]])

RECURSIVE KeccakSponge(_, _, _)
KeccakSponge(A, padded, off) ==
    IF off >= Len(padded) THEN A
    ELSE KeccakSponge(KeccakF(KeccakAbsorb(A, SubSeq(padded, off + 1, off + RATE)), 1),
                      padded, off + RATE)

LaneByte(lane, k) ==
    LET bit(t) == IF 8 * k + t \in lane THEN 2 ^ t ELSE 0
    IN  bit(0) + bit(1) + bit(2) + bit(3) + bit(4) + bit(5) + bit(6) + bit(7)

Keccak256(data) ==
    LET A == KeccakSponge(Lanes([i \in 1..25 |-> {}]), KeccakPad(data), 0)
    IN  SubSeq([i \in 1..32 |-> LaneByte(A[((i - 1) \div 8) + 1], (i - 1) % 8)], 1, 32)

(***************************************************************************)
(* Strings: a string is the sequence of its characters, as_bytes() its     *)
(* ASCII codes.                                                            *)
(***************************************************************************)

LowerCase ==
    <<"a", "b", "c", "d", "e", "f", "g", "h", "i", "j", "k", "l", "m",
      "n", "o", "p", "q", "r", "s", "t", "u", "v", "w", "x", "y", "z">>

UpperCase ==
    <<"A", "B", "C", "D", "E", "F", "G", "H", "I", "J", "K", "L", "M",
      "N", "O", "P", "Q", "R", "S", "T", "U", "V", "W", "X", "Y", "Z">>

Digits == <<"0", "1", "2", "3", "4", "5", "6", "7", "8", "9">>

IndexOf(s, c) == CHOOSE i \in 1..Len(s) : s[i] = c

Ascii(c) ==
    CASE c = " " -> 32
      [] c = "(" -> 40
      [] c = ")" -> 41
      [] c = "," -> 44
      [] \E i \in 1..10 : Digits[i] = c    -> 47 + IndexOf(Digits, c)
      [] \E i \in 1..26 : UpperCase[i] = c -> 64 + IndexOf(UpperCase, c)
      [] \E i \in 1..26 : LowerCase[i] = c -> 96 + IndexOf(LowerCase, c)

as_bytes(s) == SubSeq([i \in 1..Len(s) |-> Ascii(s[i])], 1, Len(s))

(***************************************************************************)
(* eip712.rs: the published type hashes                                    *)
(***************************************************************************)

TRANSFER_WITH_AUTHORIZATION_TYPEHASH ==
    << \h7c, \h7c, \h6c, \hdb, \h67, \ha1, \h87, \h43,
       \hf4, \h9e, \hc6, \hfa, \h9b, \h35, \hf5, \h0d,
       \h52, \hed, \h05, \hcb, \hed, \h4c, \hc5, \h92,
       \he1, \h3b, \h44, \h50, \h1c, \h1a, \h22, \h67 >>

RECEIVE_WITH_AUTHORIZATION_TYPEHASH ==
    << \hd0, \h99, \hcc, \h98, \hef, \h71, \h10, \h7a,
       \h61, \h6c, \h4f, \h0f, \h94, \h1f, \h04, \hc3,
       \h22, \hd8, \he2, \h54, \hfe, \h26, \hb3, \hc6,
       \h66, \h8d, \hb8, \h7a, \hae, \h41, \h3d, \he8 >>

\* Variant of CANCEL_AUTHORIZATION_TYPEHASH whose last byte is 0x28.
CANCEL_AUTHORIZATION_TYPEHASH_misprinted ==
    << \h15, \h8b, \h0a, \h9e, \hdf, \h7a, \h82, \h8a,
       \had, \h02, \hf6, \h3c, \hd5, \h15, \hc6, \h8e,
       \hf2, \hf5, \h0b, \ha8, \h07, \h39, \h6f, \h6d,
       \h12, \h84, \h28, \h33, \ha1, \h59, \h74, \h28 >>

CANCEL_AUTHORIZATION_TYPEHASH ==
    << \h15, \h8b, \h0a, \h9e, \hdf, \h7a, \h82, \h8a,
       \had, \h02, \hf6, \h3c, \hd5, \h15, \hc6, \h8e,
       \hf2, \hf5, \h0b, \ha8, \h07, \h39, \h6f, \h6d,
       \h12, \h84, \h28, \h33, \ha1, \h59, \h74, \h29 >>

\* The canonical signature strings hashed by test_typehash_constants.
transfer_typehash_str ==
    <<"T", "r", "a", "n", "s", "f", "e", "r", "W", "i", "t", "h", "A", "u", "t",
      "h", "o", "r", "i", "z", "a", "t", "i", "o", "n", "(", "a", "d", "d", "r",
      "e", "s", "s", " ", "f", "r", "o", "m", ",", "a", "d", "d", "r", "e", "s",
      "s", " ", "t", "o", ",", "u", "i", "n", "t", "2", "5", "6", " ", "v", "a",
      "l", "u", "e", ",", "u", "i", "n", "t", "2", "5", "6", " ", "v", "a", "l",
      "i", "d", "A", "f", "t", "e", "r", ",", "u", "i", "n", "t", "2", "5", "6",
      " ", "v", "a", "l", "i", "d", "B", "e", "f", "o", "r", "e", ",", "b", "y",
      "t", "e", "s", "3", "2", " ", "n", "o", "n", "c", "e", ")">>

receive_typehash_str ==
    <<"R", "e", "c", "e", "i", "v", "e", "W", "i", "t", "h", "A", "u", "t", "h",
      "o", "r", "i", "z", "a", "t", "i", "o", "n", "(", "a", "d", "d", "r", "e",
      "s", "s", " ", "f", "r", "o", "m", ",", "a", "d", "d", "r", "e", "s", "s",
      " ", "t", "o", ",", "u", "i", "n", "t", "2", "5", "6", " ", "v", "a", "l",
      "u", "e", ",", "u", "i", "n", "t", "2", "5", "6", " ", "v", "a", "l", "i",
      "d", "A", "f", "t", "e", "r", ",", "u", "i", "n", "t", "2", "5", "6", " ",
      "v", "a", "l", "i", "d", "B", "e", "f", "o", "r", "e", ",", "b", "y", "t",
      "e", "s", "3", "2", " ", "n", "o", "n", "c", "e", ")">>

cancel_typehash_str ==
    <<"C", "a", "n", "c", "e", "l", "A", "u", "t", "h", "o", "r", "i", "z", "a",
      "t", "i", "o", "n", "(", "a", "d", "d", "r", "e", "s", "s", " ", "a", "u",
      "t", "h", "o", "r", "i", "z", "e", "r", ",", "b", "y", "t", "e", "s", "3",
      "2", " ", "n", "o", "n", "c", "e", ")">>

(***************************************************************************)
(* eip712.rs: the sol! structs.  A struct type is its name and its fields  *)
(* (Solidity type, name) in declaration order; sol! derives from them the  *)
(* EIP-712 encodeType string, the type hash, encodeData and hashStruct.    *)
(***************************************************************************)

T_address == <<"a", "d", "d", "r", "e", "s", "s">>
T_uint256 == <<"u", "i", "n", "t", "2", "5", "6">>
T_bytes32 == <<"b", "y", "t", "e", "s", "3", "2">>

SolField(type, name) == [type |-> type, name |-> name]

\* Variant of TransferWithAuthorization that declares validBefore ahead of
\* validAfter.
TransferWithAuthorization_reordered ==
    [name   |-> <<"T", "r", "a", "n", "s", "f", "e", "r", "W", "i", "t", "h", "A",
                "u", "t", "h", "o", "r", "i", "z", "a", "t", "i", "o", "n">>,
     fields |-> << SolField(T_address, <<"f", "r", "o", "m">>),
                   SolField(T_address, <<"t", "o">>),
                   SolField(T_uint256, <<"v", "a", "l", "u", "e">>),
                   SolField(T_uint256, <<"v", "a", "l", "i", "d", "B", "e", "f", "o", "r", "e">>),
                   SolField(T_uint256, <<"v", "a", "l", "i", "d", "A", "f", "t", "e", "r">>),
                   SolField(T_bytes32, <<"n", "o", "n", "c", "e">>) >>]

TransferWithAuthorization ==
    [name   |-> <<"T", "r", "a", "n", "s", "f", "e", "r", "W", "i", "t", "h", "A",
                "u", "t", "h", "o", "r", "i", "z", "a", "t", "i", "o", "n">>,
     fields |-> << SolField(T_address, <<"f", "r", "o", "m">>),
                   SolField(T_address, <<"t", "o">>),
                   SolField(T_uint256, <<"v", "a", "l", "u", "e">>),
                   SolField(T_uint256, <<"v", "a", "l", "i", "d", "A", "f", "t", "e", "r">>),
                   SolField(T_uint256, <<"v", "a", "l", "i", "d", "B", "e", "f", "o", "r", "e">>),
                   SolField(T_bytes32, <<"n", "o", "n", "c", "e">>) >>]

\* Variant of ReceiveWithAuthorization declared under the transfer struct's name.
ReceiveWithAuthorization_named_transfer ==
    [name   |-> <<"T", "r", "a", "n", "s", "f", "e", "r", "W", "i", "t", "h", "A",
                "u", "t", "h", "o", "r", "i", "z", "a", "t", "i", "o", "n">>,
     fields |-> << SolField(T_address, <<"f", "r", "o", "m">>),
                   SolField(T_address, <<"t", "o">>),
                   SolField(T_uint256, <<"v", "a", "l", "u", "e">>),
                   SolField(T_uint256, <<"v", "a", "l", "i", "d", "A", "f", "t", "e", "r">>),
                   SolField(T_uint256, <<"v", "a", "l", "i", "d", "B", "e", "f", "o", "r", "e">>),
                   SolField(T_bytes32, <<"n", "o", "n", "c", "e">>) >>]

ReceiveWithAuthorization ==
    [name   |-> <<"R", "e", "c", "e", "i", "v", "e", "W", "i", "t", "h", "A", "u",
                "t", "h", "o", "r", "i", "z", "a", "t", "i", "o", "n">>,
     fields |-> << SolField(T_address, <<"f", "r", "o", "m">>),
                   SolField(T_address, <<"t", "o">>),
                   SolField(T_uint256, <<"v", "a", "l", "u", "e">>),
                   SolField(T_uint256, <<"v", "a", "l", "i", "d", "A", "f", "t", "e", "r">>),
                   SolField(T_uint256, <<"v", "a", "l", "i", "d", "B", "e", "f", "o", "r", "e">>),
                   SolField(T_bytes32, <<"n", "o", "n", "c", "e">>) >>]

CancelAuthorization ==
    [name   |-> <<"C", "a", "n", "c", "e", "l", "A", "u", "t", "h", "o", "r", "i",
                "z", "a", "t", "i", "o", "n">>,
     fields |-> << SolField(T_address, <<"a", "u", "t", "h", "o", "r", "i", "z", "e", "r">>),
                   SolField(T_bytes32, <<"n", "o", "n", "c", "e">>) >>]

\* A struct value: its type and its field values in declaration order.
SolStruct(type, values) == [type |-> type, values |-> values]

RECURSIVE eip712_components(_, _)
eip712_components(fields, i) ==
    IF i > Len(fields) THEN <<>>
    ELSE (IF i = 1 THEN <<>> ELSE <<",">>)
         \o fields[i].type \o <<" ">> \o fields[i].name
         \o eip712_components(fields, i + 1)

eip712_encode_type(type) ==
    type.name \o <<"(">> \o eip712_components(type.fields, 1) \o <<")">>

\* The 32-byte word of one field: an address left-padded with zeros, a
\* uint256 big-endian, a bytes32 as it is.
eip712_data_word(type, v) ==
    CASE type = T_address -> Repeat(0, 12) \o v
      [] type = T_uint256 -> to_be_bytes(v)
      [] type = T_bytes32 -> v

RECURSIVE eip712_encode_data_from(_, _)
eip712_encode_data_from(s, i) ==
    IF i > Len(s.type.fields) THEN <<>>
    ELSE eip712_data_word(s.type.fields[i].type, s.values[i])
         \o eip712_encode_data_from(s, i + 1)

eip712_encode_data(s) == eip712_encode_data_from(s, 1)

\* What hashStruct hashes: typeHash || encodeData(s).
eip712_struct_preimage(type_hash, s) == type_hash \o eip712_encode_data(s)

\* Variant of eip712_digest_data that leaves the domain separator out.
eip712_digest_data_no_domain(domain_separator, struct_hash) ==
    <<\h19, \h01>> \o Repeat(0, 32) \o struct_hash

\* Variant of eip712_digest_data with the two hashes in the other order.
eip712_digest_data_swapped(domain_separator, struct_hash) ==
    <<\h19, \h01>> \o struct_hash \o domain_separator

\* The Vec `data` of compute_eip712_digest.
eip712_digest_data(domain_separator, struct_hash) ==
    <<\h19, \h01>> \o domain_separator \o struct_hash

(***************************************************************************)
(* types.rs: the parameter objects                                         *)
(***************************************************************************)

\* Variant of new that puts the two ends of the window in order.
TransferAuthorizationParams_new_ordered(from, to, value, valid_after, valid_before, nonce) ==
    [from |-> from, to |-> to, value |-> value,
     valid_after |-> IF u64_lt(valid_before, valid_after) THEN valid_before ELSE valid_after,
     valid_before |-> IF u64_lt(valid_before, valid_after) THEN valid_after ELSE valid_before,
     nonce |-> nonce]

TransferAuthorizationParams_new(from, to, value, valid_after, valid_before, nonce) ==
    [from |-> from, to |-> to, value |-> value, valid_after |-> valid_after,
     valid_before |-> valid_before, nonce |-> nonce]

CancelAuthorizationParams_new(authorizer, nonce) ==
    [authorizer |-> authorizer, nonce |-> nonce]

\* A reading of the system clock: before the Unix epoch or not, and the
\* whole seconds and the nanoseconds it is away from it.
SystemTime(before_epoch, secs, nanos) ==
    [before_epoch |-> before_epoch, secs |-> secs, nanos |-> nanos]

\* time.duration_since(UNIX_EPOCH).expect("Time went backwards").as_secs()
unix_secs(time) ==
    IF time.before_epoch THEN Panicked("Time went backwards") ELSE Returned(time.secs)

\* with_duration, given what the clock reads at each successive reading and
\* how the build treats overflow: the readings it takes and how it ends.
TransferAuthorizationParams_with_duration(from, to, value, duration_seconds, nonce, clock, overflow_checks) ==
    LET now == unix_secs(clock[1])
        valid_before == u64_add(now.value, duration_seconds, overflow_checks)
    IN  [clock_reads |-> 1,
         ret |-> IF now.panicked THEN now
                 ELSE IF valid_before.panicked THEN valid_before
                 ELSE Returned([from |-> from, to |-> to, value |-> value,
                                valid_after |-> now.value,
                                valid_before |-> valid_before.value, nonce |-> nonce])]

\* Variant of without_time_bounds whose window ends at u32::MAX.
TransferAuthorizationParams_without_time_bounds_u32(from, to, value, nonce) ==
    [from |-> from, to |-> to, value |-> value, valid_after |-> U64(0),
     valid_before |-> Repeat(0, 4) \o Repeat(255, 4), nonce |-> nonce]

TransferAuthorizationParams_without_time_bounds(from, to, value, nonce) ==
    [from |-> from, to |-> to, value |-> value, valid_after |-> U64(0),
     valid_before |-> U64_MAX, nonce |-> nonce]

(***************************************************************************)
(* signing/mod.rs: the nonce source and the time bounds                    *)
(***************************************************************************)

\* Rng::fill: every byte of the buffer replaced by the next random byte.
fill(bytes, random) == SubSeq([i \in 1..Len(bytes) |-> random[i]], 1, Len(bytes))

\* Variant of generate_nonce that fills the first half of the buffer only.
generate_nonce_half_filled(random) ==
    LET bytes == Repeat(0, 32)
    IN  fill(SubSeq(bytes, 1, 16), random) \o SubSeq(bytes, 17, 32)

\* generate_nonce, given the bytes the thread's generator yields next.
generate_nonce(random) ==
    LET bytes == Repeat(0, 32)
    IN  fill(bytes, random)

\* create_time_bounds, given what the clock reads at each successive reading
\* and how the build treats overflow: the readings it takes and how it ends.
create_time_bounds(duration_seconds, clock, overflow_checks) ==
    LET now == unix_secs(clock[1])
        valid_before == u64_add(now.value, duration_seconds, overflow_checks)
    IN  [clock_reads |-> 1,
         ret |-> IF now.panicked THEN now
                 ELSE IF valid_before.panicked THEN valid_before
                 ELSE Returned(<<now.value, valid_before.value>>)]

(***************************************************************************)
(* The inputs the callers draw from: the values of the repository's tests, *)
(* and for each field of the transfer parameters one more value.           *)
(***************************************************************************)

DomainSeparators == {Repeat(d, 32) : d \in 1..NumDomains}

ExampleParams ==
    TransferAuthorizationParams_new(Address(1), Address(2), U256_from(U64(1000)),
                                    U64(0), U64_MAX, Repeat(3, 32))

TransferParams ==
    { ExampleParams,
      [ExampleParams EXCEPT !.from = Address(3)],
      [ExampleParams EXCEPT !.to = Address(3)],
      [ExampleParams EXCEPT !.value = U256_from(U64(2000))],
      [ExampleParams EXCEPT !.valid_after = U64(1)],
      [ExampleParams EXCEPT !.valid_before = U64(3600)],
      [ExampleParams EXCEPT !.nonce = Repeat(4, 32)],
      [ExampleParams EXCEPT !.value = <<U64_MAX, U64_MAX, U64_MAX, U64_MAX>>],
      TransferAuthorizationParams_new(Address(1), Address(1), U256_from(U64(0)),
                                      U64(200), U64(100), Repeat(3, 32)) }

CancelParams ==
    { CancelAuthorizationParams_new(a, n) :
          a \in {Address(1), Address(2)}, n \in {Repeat(3, 32), Repeat(4, 32)} }

\* The field values of the sol! struct built from a parameter object, the
\* timestamps widened as the callers of the digest engine widen them.
TransferValues(p) ==
    <<p.from, p.to, p.value, U256_from(p.valid_after), U256_from(p.valid_before), p.nonce>>

CancelValues(c) == <<c.authorizer, c.nonce>>

(***************************************************************************)
(* keccak256, evaluated once for every preimage the inputs above lead to   *)
(* and computed for any other.                                             *)
(***************************************************************************)

Memoise(memo, preimages) ==
    memo \cup {<<d, Keccak256(d)>> : d \in preimages \ {e[1] : e \in memo}}

Memoised(memo, d) == (CHOOSE e \in memo : e[1] = d)[2]

TypePreimages ==
    { as_bytes(eip712_encode_type(type)) :
          type \in {TransferWithAuthorization, ReceiveWithAuthorization, CancelAuthorization} }

TypeMemo == Memoise({}, TypePreimages)

StructInputs ==
    { SolStruct(type, TransferValues(p)) :
          type \in {TransferWithAuthorization, ReceiveWithAuthorization},
          p \in TransferParams }
    \cup { SolStruct(CancelAuthorization, CancelValues(c)) : c \in CancelParams }

StructPreimage(s) ==
    eip712_struct_preimage(Memoised(TypeMemo, as_bytes(eip712_encode_type(s.type))), s)

StructMemo == Memoise(TypeMemo, {StructPreimage(s) : s \in StructInputs})

DigestPreimages ==
    { eip712_digest_data(ds, Memoised(StructMemo, StructPreimage(s))) :
          ds \in DomainSeparators, s \in StructInputs }

KeccakMemo == Memoise(StructMemo, DigestPreimages)

keccak256(data) ==
    IF \E e \in KeccakMemo : e[1] = data THEN Memoised(KeccakMemo, data)
    ELSE Keccak256(data)

(***************************************************************************)
(* eip712.rs: the digest engine                                            *)
(***************************************************************************)

eip712_type_hash(type) == keccak256(as_bytes(eip712_encode_type(type)))

eip712_hash_struct(s) ==
    keccak256(eip712_struct_preimage(eip712_type_hash(s.type), s))

\* Variant of compute_eip712_digest that answers from a buffer left by the
\* call before it, when there was one.
compute_eip712_digest_frame_stale(domain_separator, struct_hash) ==
    LET data == eip712_digest_data(domain_separator, struct_hash)
    IN  [data |-> data,
         ret  |-> IF last = [fn |-> "none"] THEN keccak256(data) ELSE Repeat(0, 32)]

\* The locals of one call of compute_eip712_digest, and what it returns.
compute_eip712_digest_frame(domain_separator, struct_hash) ==
    LET data == eip712_digest_data(domain_separator, struct_hash)
    IN  [data |-> data, ret |-> keccak256(data)]

compute_eip712_digest(domain_separator, struct_hash) ==
    compute_eip712_digest_frame(domain_separator, struct_hash).ret

\* The locals of one call of a hash_* function, and what it returns.
HashFrame(domain_separator, struct_hash) ==
    LET digest == compute_eip712_digest_frame(domain_separator, struct_hash)
    IN  [struct_hash |-> struct_hash, data |-> digest.data, ret |-> digest.ret]

\* Variant of hash_transfer_with_authorization that hashes the holder and the
\* nonce alone, as a cancellation.
hash_transfer_with_authorization_frame_as_cancel(domain_separator, from, to, value, valid_after, valid_before, nonce) ==
    HashFrame(domain_separator,
              eip712_hash_struct(SolStruct(CancelAuthorization, <<from, nonce>>)))

\* Variant of hash_transfer_with_authorization that gives up, returning no
\* digest, on a window that is empty.
hash_transfer_with_authorization_frame_checked(domain_separator, from, to, value, valid_after, valid_before, nonce) ==
    IF u64_lt(valid_after[1], valid_before[1])
    THEN HashFrame(domain_separator,
                   eip712_hash_struct(SolStruct(TransferWithAuthorization,
                       <<from, to, value, valid_after, valid_before, nonce>>)))
    ELSE [struct_hash |-> <<>>, data |-> <<>>, ret |-> <<>>]

hash_transfer_with_authorization_frame(domain_separator, from, to, value, valid_after, valid_before, nonce) ==
    HashFrame(domain_separator,
              eip712_hash_struct(SolStruct(TransferWithAuthorization,
                  <<from, to, value, valid_after, valid_before, nonce>>)))

hash_transfer_with_authorization(domain_separator, from, to, value, valid_after, valid_before, nonce) ==
    hash_transfer_with_authorization_frame(domain_separator, from, to, value,
                                           valid_after, valid_before, nonce).ret

hash_receive_with_authorization_frame(domain_separator, from, to, value, valid_after, valid_before, nonce) ==
    HashFrame(domain_separator,
              eip712_hash_struct(SolStruct(ReceiveWithAuthorization,
                  <<from, to, value, valid_after, valid_before, nonce>>)))

hash_receive_with_authorization(domain_separator, from, to, value, valid_after, valid_before, nonce) ==
    hash_receive_with_authorization_frame(domain_separator, from, to, value,
                                          valid_after, valid_before, nonce).ret

\* Variant of hash_cancel_authorization that hashes a zero nonce.
hash_cancel_authorization_frame_zero_nonce(domain_separator, authorizer, nonce) ==
    HashFrame(domain_separator,
              eip712_hash_struct(SolStruct(CancelAuthorization,
                                           <<authorizer, Repeat(0, 32)>>)))

hash_cancel_authorization_frame(domain_separator, authorizer, nonce) ==
    HashFrame(domain_separator,
              eip712_hash_struct(SolStruct(CancelAuthorization, <<authorizer, nonce>>)))

hash_cancel_authorization(domain_separator, authorizer, nonce) ==
    hash_cancel_authorization_frame(domain_separator, authorizer, nonce).ret

(***************************************************************************)
(* lazy_token.rs: the token and its three cells.  A OnceCell                *)
(* (async_once_cell) is the value it holds, if any, and the task whose     *)
(* initialising future it is polling, if any (0 for none).                 *)
(***************************************************************************)

Accessors == {"name", "symbol", "decimals"}

OnceCell_new == [value |-> <<>>, initializer |-> 0]

LazyToken_new == [field \in Accessors |-> OnceCell_new]

\* state & READY_BIT != 0: the cell holds its value.
OnceCell_ready_never(cell) == FALSE

OnceCell_ready(cell) == cell.value # <<>>

\* An initialising future of the cell is being polled; the others wait.
OnceCell_locked_never(cell) == FALSE

OnceCell_locked(cell) == cell.initializer # 0

\* Variant of OnceCell_init_finished that stores the error of a failed future.
OnceCell_init_finished_storing_error(cell, res) ==
    IF res.ok THEN [value |-> <<res.value>>, initializer |-> 0]
    ELSE [value |-> <<res.error>>, initializer |-> 0]

\* The initialising future has finished: its value is stored, its error is
\* not, and the next waiting task may go on.
OnceCell_init_finished(cell, res) ==
    IF res.ok THEN [value |-> <<res.value>>, initializer |-> 0]
    ELSE [value |-> cell.value, initializer |-> 0]

\* BigInt::from_bytes_be(sign, bytes): the magnitude without leading zeros,
\* and no sign for zero.
RECURSIVE StripLeadingZeros(_)
StripLeadingZeros(bytes) ==
    IF bytes # <<>> /\ Head(bytes) = 0 THEN StripLeadingZeros(Tail(bytes)) ELSE bytes

BigInt_from_bytes_be(sign, bytes) ==
    LET magnitude == StripLeadingZeros(bytes)
    IN  [sign |-> IF magnitude = <<>> THEN "NoSign" ELSE sign, magnitude |-> magnitude]

\* BigDecimal::from((int_val, scale)): int_val / 10^scale.
BigDecimal_from(int_val, scale) == [int_val |-> int_val, scale |-> scale]

\* Variant of balance that converts the low 64 bits of the amount.
balance_of_low_limb(amount, decimals) ==
    BigDecimal_from(BigInt_from_bytes_be("Plus", amount[1]), decimals)

\* let balance = ... of get_balance.
balance(amount, decimals) ==
    BigDecimal_from(BigInt_from_bytes_be("Plus", to_be_bytes(amount)), decimals)

\* The contract behind the token's instance, as the token sees it: for each
\* of the three queries, the answers it has given so far.
Erc20Contract_new == [method \in Accessors |-> <<>>]

(***************************************************************************)
(* The state: the first call made and the latest one, each with its        *)
(* arguments, the locals observed and the value returned; whether a call   *)
(* other than the first one has returned since; the tasks that run at the  *)
(* same time, each with its locals; the token and its contract.            *)
(***************************************************************************)

None == [fn |-> "none"]

Tasks == 1..NumTasks

Idle == [pc |-> "idle"]

Init ==
    /\ first = None /\ last = None /\ between = FALSE
    /\ tasks = [t \in Tasks |-> Idle]
    /\ token = LazyToken_new
    /\ contract = Erc20Contract_new

Return(call) ==
    /\ first' = IF first = None THEN call ELSE first
    /\ last' = call
    /\ between' = (between \/ (first # None /\ (call.fn # first.fn \/ call # first)))
    /\ UNCHANGED <<tasks, token, contract>>

DigestCall(fn, domain_separator, args, frame) ==
    [fn |-> fn, domain_separator |-> domain_separator, args |-> args,
     struct_hash |-> frame.struct_hash, data |-> frame.data, digest |-> frame.ret]

\* Every call of a hash_* function the callers make, with what it computes.
HashTransferCalls ==
    { LET a == TransferValues(p)
      IN  DigestCall("hash_transfer_with_authorization", ds, a,
              hash_transfer_with_authorization_frame(ds, a[1], a[2], a[3], a[4], a[5], a[6])) :
          ds \in DomainSeparators, p \in TransferParams }

HashReceiveCalls ==
    { LET a == TransferValues(p)
      IN  DigestCall("hash_receive_with_authorization", ds, a,
              hash_receive_with_authorization_frame(ds, a[1], a[2], a[3], a[4], a[5], a[6])) :
          ds \in DomainSeparators, p \in TransferParams }

HashCancelCalls ==
    { DigestCall("hash_cancel_authorization", ds, CancelValues(c),
          hash_cancel_authorization_frame(ds, c.authorizer, c.nonce)) :
          ds \in DomainSeparators, c \in CancelParams }

CallHashTransferWithAuthorization == \E call \in HashTransferCalls : Return(call)

CallHashReceiveWithAuthorization == \E call \in HashReceiveCalls : Return(call)

CallHashCancelAuthorization == \E call \in HashCancelCalls : Return(call)

\* test_typehash_constants: the three canonical strings hashed anew.
test_typehash_constants ==
    [fn |-> "test_typehash_constants",
     computed |-> << keccak256(as_bytes(transfer_typehash_str)),
                     keccak256(as_bytes(receive_typehash_str)),
                     keccak256(as_bytes(cancel_typehash_str)) >>]

TestTypehashConstants == Return(test_typehash_constants)

DigestNext ==
    \/ CallHashTransferWithAuthorization
    \/ CallHashReceiveWithAuthorization
    \/ CallHashCancelAuthorization
    \/ TestTypehashConstants

\* The callers of the digest engine.
DigestSpec == Init /\ [][DigestNext]_vars

(***************************************************************************)
(* The signer (alloy's PrivateKeySigner) and ECDSA, symbolically: a        *)
(* signature is made of the key, the prehash and the k value drawn; r      *)
(* depends on k alone, s on all three, the parity bit v on k.  Which k is  *)
(* drawn, and whether the signer fails, is the signer's choice.            *)
(***************************************************************************)

PrivateKeySigner(key, address) == [key |-> key, address |-> address]

\* The keys that exist, and the signer the callers hold.
Wallets == {PrivateKeySigner("alice", Address(1)), PrivateKeySigner("bob", Address(2))}

Signers == {PrivateKeySigner("alice", Address(1))}

ecdsa_sign(key, prehash, k) ==
    [r |-> <<"R", k>>, s |-> <<"S", k, key, prehash>>, v |-> (k % 2 = 1)]

Ok(value) == [ok |-> TRUE, value |-> value]

Err(error) == [ok |-> FALSE, error |-> error]

\* One invocation of the signer: what it was given and each result it may give.
sign_hash_sync(signer, hash) ==
    { [method |-> "sign_hash_sync", prehash |-> hash, result |-> res] :
          res \in {Ok(ecdsa_sign(signer.key, hash, k)) : k \in 1..MaxK}
                  \cup {Err("signer")} }

\* Variant of sign_hash that signs the hash behind a one-byte prefix, as a
\* message signer would.
sign_hash_prefixed(signer, hash) ==
    { [method |-> "sign_hash", prehash |-> hash, result |-> res] :
          res \in {Ok(ecdsa_sign(signer.key, <<\h19>> \o hash, k)) : k \in 1..MaxK}
                  \cup {Err("signer")} }

sign_hash(signer, hash) ==
    { [inv EXCEPT !.method = "sign_hash"] : inv \in sign_hash_sync(signer, hash) }

\* Signature::recover_address_from_prehash: the address of the key that made
\* the signature when it was made over this prehash, and an address of no
\* signer otherwise.
recover_address_from_prehash(sig, prehash) ==
    IF \E signer \in Wallets : sig = ecdsa_sign(signer.key, prehash, sig.r[2])
    THEN (CHOOSE signer \in Wallets :
              sig = ecdsa_sign(signer.key, prehash, sig.r[2])).address
    ELSE Repeat(255, 20)

\* The 32 big-endian bytes of a curve scalar.  Scalars are symbolic, and so
\* are their bytes: byte i of scalar x.
ScalarBytes(x) == SubSeq([i \in 1..32 |-> <<x, i>>], 1, 32)

\* Variant of Signature::as_bytes that ends in the raw parity bit.
Signature_as_bytes_raw_parity(sig) ==
    ScalarBytes(sig.r) \o ScalarBytes(sig.s) \o <<IF sig.v THEN 1 ELSE 0>>

\* Signature::as_bytes: r, s and the parity in its legacy encoding.
Signature_as_bytes(sig) ==
    ScalarBytes(sig.r) \o ScalarBytes(sig.s) \o <<27 + (IF sig.v THEN 1 ELSE 0)>>

(***************************************************************************)
(* authorization.rs: the six signing functions.  Each is the set of its    *)
(* possible runs: the signer invocations made, and the Result returned.    *)
(***************************************************************************)

\* Variant of SignRuns that invokes the signer once more when it fails.
SignRuns_retrying(invocations) ==
    { [signer_calls |-> <<inv>>, ret |-> inv.result] :
          inv \in {i \in invocations : i.result.ok} }
    \cup { [signer_calls |-> <<inv, again>>, ret |-> again.result] :
               inv \in {i \in invocations : ~i.result.ok}, again \in invocations }

\* Variant of SignRuns that keeps the latest Result and, when the call before
\* was a signing call, returns it again without invoking the signer.
SignRuns_cached(invocations) ==
    IF "signer_calls" \in DOMAIN last
    THEN {[signer_calls |-> <<>>, ret |-> last.ret]}
    ELSE { [signer_calls |-> <<inv>>, ret |-> inv.result] : inv \in invocations }

SignRuns(invocations) ==
    { [signer_calls |-> <<inv>>, ret |-> inv.result] : inv \in invocations }

sign_transfer_authorization(params, domain_separator, signer) ==
    LET digest == hash_transfer_with_authorization(
                      domain_separator, params.from, params.to, params.value,
                      U256_from(params.valid_after), U256_from(params.valid_before),
                      params.nonce)
    IN  SignRuns(sign_hash(signer, digest))

\* Variant of sign_transfer_authorization_sync that leaves the value out of
\* what it signs, hashing a value of zero.
sign_transfer_authorization_sync_without_value(params, domain_separator, signer) ==
    LET digest == hash_transfer_with_authorization(
                      domain_separator, params.from, params.to, U256_from(U64(0)),
                      U256_from(params.valid_after), U256_from(params.valid_before),
                      params.nonce)
    IN  SignRuns(sign_hash_sync(signer, digest))

sign_transfer_authorization_sync(params, domain_separator, signer) ==
    LET digest == hash_transfer_with_authorization(
                      domain_separator, params.from, params.to, params.value,
                      U256_from(params.valid_after), U256_from(params.valid_before),
                      params.nonce)
    IN  SignRuns(sign_hash_sync(signer, digest))

sign_receive_authorization(params, domain_separator, signer) ==
    LET digest == hash_receive_with_authorization(
                      domain_separator, params.from, params.to, params.value,
                      U256_from(params.valid_after), U256_from(params.valid_before),
                      params.nonce)
    IN  SignRuns(sign_hash(signer, digest))

\* Variant of sign_receive_authorization_sync that signs the transfer digest.
sign_receive_authorization_sync_as_transfer(params, domain_separator, signer) ==
    sign_transfer_authorization_sync(params, domain_separator, signer)

sign_receive_authorization_sync(params, domain_separator, signer) ==
    LET digest == hash_receive_with_authorization(
                      domain_separator, params.from, params.to, params.value,
                      U256_from(params.valid_after), U256_from(params.valid_before),
                      params.nonce)
    IN  SignRuns(sign_hash_sync(signer, digest))

sign_cancel_authorization(params, domain_separator, signer) ==
    LET digest == hash_cancel_authorization(domain_separator, params.authorizer,
                                            params.nonce)
    IN  SignRuns(sign_hash(signer, digest))

sign_cancel_authorization_sync(params, domain_separator, signer) ==
    LET digest == hash_cancel_authorization(domain_separator, params.authorizer,
                                            params.nonce)
    IN  SignRuns(sign_hash_sync(signer, digest))

\* The parameter objects the callers sign: those of the signing tests.
SignedTransferParams ==
    {ExampleParams, [ExampleParams EXCEPT !.value = U256_from(U64(2000))]}

SignedCancelParams ==
    { CancelAuthorizationParams_new(Address(1), n) : n \in {Repeat(3, 32), Repeat(4, 32)} }

SignCall(fn, params, domain_separator, signer, run) ==
    [fn |-> fn, params |-> params, domain_separator |-> domain_separator,
     signer |-> signer, signer_calls |-> run.signer_calls, ret |-> run.ret]

\* Every run of a signing function the callers make.
SignTransferCalls ==
    UNION { { SignCall("sign_transfer_authorization", p, ds, signer, run) :
                  run \in sign_transfer_authorization(p, ds, signer) } :
              p \in SignedTransferParams, ds \in DomainSeparators, signer \in Signers }

SignTransferSyncCalls ==
    UNION { { SignCall("sign_transfer_authorization_sync", p, ds, signer, run) :
                  run \in sign_transfer_authorization_sync(p, ds, signer) } :
              p \in SignedTransferParams, ds \in DomainSeparators, signer \in Signers }

SignReceiveCalls ==
    UNION { { SignCall("sign_receive_authorization", p, ds, signer, run) :
                  run \in sign_receive_authorization(p, ds, signer) } :
              p \in SignedTransferParams, ds \in DomainSeparators, signer \in Signers }

SignReceiveSyncCalls ==
    UNION { { SignCall("sign_receive_authorization_sync", p, ds, signer, run) :
                  run \in sign_receive_authorization_sync(p, ds, signer) } :
              p \in SignedTransferParams, ds \in DomainSeparators, signer \in Signers }

SignCancelCalls ==
    UNION { { SignCall("sign_cancel_authorization", p, ds, signer, run) :
                  run \in sign_cancel_authorization(p, ds, signer) } :
              p \in SignedCancelParams, ds \in DomainSeparators, signer \in Signers }

SignCancelSyncCalls ==
    UNION { { SignCall("sign_cancel_authorization_sync", p, ds, signer, run) :
                  run \in sign_cancel_authorization_sync(p, ds, signer) } :
              p \in SignedCancelParams, ds \in DomainSeparators, signer \in Signers }

CallSignTransferAuthorization == \E call \in SignTransferCalls : Return(call)

CallSignTransferAuthorizationSync == \E call \in SignTransferSyncCalls : Return(call)

CallSignReceiveAuthorization == \E call \in SignReceiveCalls : Return(call)

CallSignReceiveAuthorizationSync == \E call \in SignReceiveSyncCalls : Return(call)

CallSignCancelAuthorization == \E call \in SignCancelCalls : Return(call)

CallSignCancelAuthorizationSync == \E call \in SignCancelSyncCalls : Return(call)

SignNext ==
    \/ CallSignTransferAuthorization
    \/ CallSignTransferAuthorizationSync
    \/ CallSignReceiveAuthorization
    \/ CallSignReceiveAuthorizationSync
    \/ CallSignCancelAuthorization
    \/ CallSignCancelAuthorizationSync

\* The callers of the signing functions.
SignSpec == Init /\ [][SignNext]_vars

Next == DigestNext \/ SignNext

\* The callers of both.
Spec == Init /\ [][Next]_vars

(***************************************************************************)
(* Signing calls that overlap: each task builds its authorization and      *)
(* signs it with sign_transfer_authorization, whose await on the signer    *)
(* lets the other tasks run.  The signer is shared by reference.           *)
(***************************************************************************)

\* The authorizations the tasks build: one authorizer, as in
\* example_multiple_authorizations.
ConcurrentParams ==
    { ExampleParams,
      [ExampleParams EXCEPT !.value = U256_from(U64(2000))],
      [ExampleParams EXCEPT !.nonce = Repeat(4, 32)] }

ConcurrentDomainSeparator == Repeat(1, 32)

\* Variant of local_digest in which the tasks share one slot for the digest:
\* a task signs the digest of the first task that has one ready.
local_digest_shared(t) ==
    tasks[CHOOSE u \in Tasks :
              /\ tasks[u].pc = "hashed"
              /\ \A w \in Tasks : tasks[w].pc = "hashed" => u <= w].digest

\* let digest = ...: a local of the call.
local_digest(t) == tasks[t].digest

\* The task calls sign_transfer_authorization(&params, domain_separator, &signer).
SignTaskCall(t) ==
    /\ tasks[t].pc = "idle"
    /\ \E params \in ConcurrentParams, signer \in Signers :
           tasks' = [tasks EXCEPT ![t] =
               [pc |-> "called", params |-> params,
                domain_separator |-> ConcurrentDomainSeparator, signer |-> signer]]
    /\ UNCHANGED <<first, last, between, token, contract>>

\* let digest = hash_transfer_with_authorization(...)
SignTaskHash(t) ==
    /\ tasks[t].pc = "called"
    /\ LET self == tasks[t]
           digest == hash_transfer_with_authorization(
                         self.domain_separator, self.params.from, self.params.to,
                         self.params.value, U256_from(self.params.valid_after),
                         U256_from(self.params.valid_before), self.params.nonce)
       IN  tasks' = [tasks EXCEPT ![t] =
               [pc |-> "hashed", params |-> self.params,
                domain_separator |-> self.domain_separator, signer |-> self.signer,
                digest |-> digest]]
    /\ UNCHANGED <<first, last, between, token, contract>>

\* signer.sign_hash(&digest): the signer is invoked, and the task awaits it.
SignTaskInvoke(t) ==
    /\ tasks[t].pc = "hashed"
    /\ LET self == tasks[t]
       IN  \E inv \in sign_hash(self.signer, local_digest(t)) :
               tasks' = [tasks EXCEPT ![t] =
                   [pc |-> "awaiting", params |-> self.params,
                    domain_separator |-> self.domain_separator, signer |-> self.signer,
                    digest |-> self.digest, signer_calls |-> <<inv>>]]
    /\ UNCHANGED <<first, last, between, token, contract>>

\* .await: the signer's Result is the Result of the call.
SignTaskReturn(t) ==
    /\ tasks[t].pc = "awaiting"
    /\ LET self == tasks[t]
       IN  tasks' = [tasks EXCEPT ![t] =
               [pc |-> "returned", params |-> self.params,
                domain_separator |-> self.domain_separator, signer |-> self.signer,
                digest |-> self.digest, signer_calls |-> self.signer_calls,
                ret |-> self.signer_calls[1].result]]
    /\ UNCHANGED <<first, last, between, token, contract>>

ConcurrentSignNext ==
    \E t \in Tasks :
        \/ SignTaskCall(t)
        \/ SignTaskHash(t)
        \/ SignTaskInvoke(t)
        \/ SignTaskReturn(t)

\* Tasks that sign authorizations of one authorizer at the same time.
ConcurrentSignSpec == Init /\ [][ConcurrentSignNext]_vars

(***************************************************************************)
(* eip3009.rs: submitting an authorization.  A contract call is the ABI    *)
(* method, its arguments and the sender set on it; send() hands it to the  *)
(* provider, which answers with a pending transaction or an error.         *)
(***************************************************************************)

\* A call on which no sender was set (from: None) goes out from the
\* provider's default account.
CallBuilder(method, args) == [method |-> method, args |-> args, from |-> <<>>]

\* CallBuilder::from: from becomes Some(sender).
with_from(call, sender) == [call EXCEPT !.from = <<sender>>]

\* One send(): the call handed to the provider and each answer it may give.
send(call) ==
    { [sent |-> <<call>>, ret |-> res] :
          res \in {Ok(<<"PendingTransactionBuilder", call>>), Err("contract")} }

\* Variant of transfer_with_authorization that passes the low 32 bits of
\* each time bound.
transfer_with_authorization_narrowed(from, to, value, valid_after, valid_before, nonce, signature) ==
    LET v == IF signature.v THEN 28 ELSE 27
        r == ScalarBytes(signature.r)
        s == ScalarBytes(signature.s)
    IN  send(CallBuilder("transferWithAuthorization",
                         <<from, to, value,
                           U256_from(Repeat(0, 4) \o SubSeq(valid_after, 5, 8)),
                           U256_from(Repeat(0, 4) \o SubSeq(valid_before, 5, 8)),
                           nonce, v, r, s>>))

transfer_with_authorization(from, to, value, valid_after, valid_before, nonce, signature) ==
    LET v == IF signature.v THEN 28 ELSE 27
        r == ScalarBytes(signature.r)
        s == ScalarBytes(signature.s)
    IN  send(CallBuilder("transferWithAuthorization",
                         <<from, to, value, U256_from(valid_after),
                           U256_from(valid_before), nonce, v, r, s>>))

\* Variant of receive_with_authorization that submits the raw parity bit.
receive_with_authorization_raw_v(from, to, value, valid_after, valid_before, nonce, signature) ==
    LET v == IF signature.v THEN 1 ELSE 0
        r == ScalarBytes(signature.r)
        s == ScalarBytes(signature.s)
    IN  send(with_from(CallBuilder("receiveWithAuthorization",
                                   <<from, to, value, U256_from(valid_after),
                                     U256_from(valid_before), nonce, v, r, s>>),
                       to))

\* Variant of receive_with_authorization that sets the token holder as sender.
receive_with_authorization_from_holder(from, to, value, valid_after, valid_before, nonce, signature) ==
    LET v == IF signature.v THEN 28 ELSE 27
        r == ScalarBytes(signature.r)
        s == ScalarBytes(signature.s)
    IN  send(with_from(CallBuilder("receiveWithAuthorization",
                                   <<from, to, value, U256_from(valid_after),
                                     U256_from(valid_before), nonce, v, r, s>>),
                       from))

receive_with_authorization(from, to, value, valid_after, valid_before, nonce, signature) ==
    LET v == IF signature.v THEN 28 ELSE 27
        r == ScalarBytes(signature.r)
        s == ScalarBytes(signature.s)
    IN  send(with_from(CallBuilder("receiveWithAuthorization",
                                   <<from, to, value, U256_from(valid_after),
                                     U256_from(valid_before), nonce, v, r, s>>),
                       to))

\* Variant of cancel_authorization that sets the authorizer as sender.
cancel_authorization_from_authorizer(authorizer, nonce, signature) ==
    LET v == IF signature.v THEN 28 ELSE 27
        r == ScalarBytes(signature.r)
        s == ScalarBytes(signature.s)
    IN  send(with_from(CallBuilder("cancelAuthorization", <<authorizer, nonce, v, r, s>>),
                       authorizer))

cancel_authorization(authorizer, nonce, signature) ==
    LET v == IF signature.v THEN 28 ELSE 27
        r == ScalarBytes(signature.r)
        s == ScalarBytes(signature.s)
    IN  send(CallBuilder("cancelAuthorization", <<authorizer, nonce, v, r, s>>))

\* The signatures a run of a signing function may have returned.
Signatures(runs) == {run.ret.value : run \in {x \in runs : x.ret.ok}}

SubmitCall(fn, args, signature, run) ==
    [fn |-> fn, args |-> args, signature |-> signature,
     sent |-> run.sent, ret |-> run.ret]

\* The parameters the callers sign and submit: the time bounds 0 and
\* u64::MAX of the example, and a bound in between.
SubmittedTransferParams ==
    {ExampleParams, [ExampleParams EXCEPT !.valid_before = U64(3600)]}

\* Every submission the callers make: the parameters signed, with a signature
\* made for them.
TransferSubmissions ==
    UNION { { SubmitCall("transfer_with_authorization", p, sig, run) :
                  run \in transfer_with_authorization(p.from, p.to, p.value, p.valid_after,
                                                      p.valid_before, p.nonce, sig) } :
              <<p, sig>> \in UNION { {p} \X Signatures(sign_transfer_authorization_sync(p, ds, signer)) :
                                     p \in SubmittedTransferParams, ds \in DomainSeparators,
                                     signer \in Signers } }

ReceiveSubmissions ==
    UNION { { SubmitCall("receive_with_authorization", p, sig, run) :
                  run \in receive_with_authorization(p.from, p.to, p.value, p.valid_after,
                                                     p.valid_before, p.nonce, sig) } :
              <<p, sig>> \in UNION { {p} \X Signatures(sign_receive_authorization_sync(p, ds, signer)) :
                                     p \in SubmittedTransferParams, ds \in DomainSeparators,
                                     signer \in Signers } }

CancelSubmissions ==
    UNION { { SubmitCall("cancel_authorization", p, sig, run) :
                  run \in cancel_authorization(p.authorizer, p.nonce, sig) } :
              <<p, sig>> \in UNION { {p} \X Signatures(sign_cancel_authorization_sync(p, ds, signer)) :
                                     p \in SignedCancelParams, ds \in DomainSeparators,
                                     signer \in Signers } }

CallTransferWithAuthorization == \E call \in TransferSubmissions : Return(call)

CallReceiveWithAuthorization == \E call \in ReceiveSubmissions : Return(call)

CallCancelAuthorization == \E call \in CancelSubmissions : Return(call)

SubmitNext ==
    \/ CallTransferWithAuthorization
    \/ CallReceiveWithAuthorization
    \/ CallCancelAuthorization

\* The callers of the submitting functions.
SubmitSpec == Init /\ [][SubmitNext]_vars

(***************************************************************************)
(* The callers of the parameter model and of the nonce source              *)
(***************************************************************************)

\* What the system clock reads at two successive readings.
Clocks ==
    { << SystemTime(FALSE, U64(1700000000), 0), SystemTime(FALSE, U64(1700000000), 5) >>,
      << SystemTime(TRUE, U64(1), 0), SystemTime(TRUE, U64(1), 0) >> }

Durations == {U64(0), U64(600), U64(3600), U64_MAX}

\* What the thread's generator may yield for one nonce.
RandomBytes(seed) == SubSeq([i \in 1..32 |-> (seed * 89 + i * 7) % 256], 1, 32)

Randoms == {RandomBytes(seed) : seed \in 1..3}

\* The arguments the callers construct parameters from: those of the tests,
\* equal addresses, a zero value, an empty window.
NewArguments ==
    { <<Address(1), Address(2), U256_from(U64(1000)), U64(100), U64(200), Repeat(1, 32)>>,
      <<Address(1), Address(2), U256_from(U64(1000)), U64(0), U64_MAX, Repeat(3, 32)>>,
      <<Address(1), Address(1), U256_from(U64(0)), U64(200), U64(100), Repeat(1, 32)>>,
      <<Address(2), Address(2), U256_from(U64(1000)), U64(200), U64(200), Repeat(3, 32)>> }

ClockCall(fn, args, clock, overflow_checks, frame) ==
    [fn |-> fn, args |-> args, clock |-> clock, overflow_checks |-> overflow_checks,
     clock_reads |-> frame.clock_reads, ret |-> frame.ret]

ParamsCall(fn, args, value) == [fn |-> fn, args |-> args, ret |-> Returned(value)]

CreateTimeBoundsCalls ==
    { ClockCall("create_time_bounds", <<d>>, clock, checks,
                create_time_bounds(d, clock, checks)) :
          d \in Durations, clock \in Clocks, checks \in BOOLEAN }

WithDurationCalls ==
    { ClockCall("TransferAuthorizationParams::with_duration",
                <<a[1], a[2], a[3], d, a[6]>>, clock, checks,
                TransferAuthorizationParams_with_duration(a[1], a[2], a[3], d, a[6],
                                                          clock, checks)) :
          a \in {x \in NewArguments : x[6] = Repeat(1, 32)},
          d \in Durations, clock \in Clocks, checks \in BOOLEAN }

WithoutTimeBoundsCalls ==
    { ParamsCall("TransferAuthorizationParams::without_time_bounds",
                 <<a[1], a[2], a[3], a[6]>>,
                 TransferAuthorizationParams_without_time_bounds(a[1], a[2], a[3], a[6])) :
          a \in NewArguments }

TransferParamsNewCalls ==
    { ParamsCall("TransferAuthorizationParams::new", a,
                 TransferAuthorizationParams_new(a[1], a[2], a[3], a[4], a[5], a[6])) :
          a \in NewArguments }

CancelParamsNewCalls ==
    { ParamsCall("CancelAuthorizationParams::new", <<a[1], a[6]>>,
                 CancelAuthorizationParams_new(a[1], a[6])) :
          a \in NewArguments }

GenerateNonceCalls ==
    { [fn |-> "generate_nonce", random |-> random, ret |-> Returned(generate_nonce(random))] :
          random \in Randoms }

CallCreateTimeBounds == \E call \in CreateTimeBoundsCalls : Return(call)

CallWithDuration == \E call \in WithDurationCalls : Return(call)

CallWithoutTimeBounds == \E call \in WithoutTimeBoundsCalls : Return(call)

CallTransferParamsNew == \E call \in TransferParamsNewCalls : Return(call)

CallCancelParamsNew == \E call \in CancelParamsNewCalls : Return(call)

CallGenerateNonce == \E call \in GenerateNonceCalls : Return(call)

ParamsNext ==
    \/ CallCreateTimeBounds
    \/ CallWithDuration
    \/ CallWithoutTimeBounds
    \/ CallTransferParamsNew
    \/ CallCancelParamsNew
    \/ CallGenerateNonce

\* The callers of the parameter model and of the nonce source.
ParamsSpec == Init /\ [][ParamsNext]_vars

(***************************************************************************)
(* The callers of the token.  Each task calls an accessor or get_balance;  *)
(* the call is split after it has read the cell, where it takes or waits   *)
(* for the cell's lock, and where the contract answers its query.          *)
(***************************************************************************)

\* What the contract may answer to a query: one of two values, so that a
\* second fetch could tell itself from the first, or an error.
Answers(method) ==
    CASE method = "name" -> {Ok("Dai Stablecoin"), Ok("Dai"), Err("transport")}
      [] method = "symbol" -> {Ok("DAI"), Ok("SAI"), Err("transport")}
      [] method = "decimals" -> {Ok(18), Ok(6), Err("transport")}

\* The amounts get_balance is given: zero, the 10^18 of
\* test_lazy_token_get_balance, and the largest U256.
Amounts ==
    { U256_from(U64(0)),
      U256_from(<<13, 224, 182, 179, 167, 100, 0, 0>>),
      <<U64_MAX, U64_MAX, U64_MAX, U64_MAX>> }

LazyCalls ==
    { [fn |-> "LazyToken::" \o field, cell |-> field, amount |-> <<>>] : field \in Accessors }
        \cup { [fn |-> "LazyToken::get_balance", cell |-> "decimals", amount |-> amount] :
                   amount \in Amounts }

\* The queries the contract has answered or is about to.
Queries ==
    Len(contract["name"]) + Len(contract["symbol"]) + Len(contract["decimals"])
        + Cardinality({t \in Tasks : tasks[t].pc = "polling"})

\* What the call returns, given the Result of get_or_try_init.
LazyReturn(self, res) ==
    IF self.fn = "LazyToken::get_balance" /\ res.ok
    THEN Ok(balance(self.amount, res.value))
    ELSE res

\* The call of task t returns res; queried tells whether its own future was
\* polled.
LazyComplete(t, queried, res) ==
    /\ last' = [fn |-> tasks[t].fn, cell |-> tasks[t].cell, amount |-> tasks[t].amount,
                queried |-> queried, ret |-> LazyReturn(tasks[t], res)]
    /\ tasks' = [tasks EXCEPT ![t] = Idle]

\* The task's future becomes the one the cell polls: its query goes out.
LazyAcquire(t) ==
    /\ Queries < MaxQueries
    /\ token' = [token EXCEPT ![tasks[t].cell].initializer = t]
    /\ tasks' = [tasks EXCEPT ![t].pc = "polling"]
    /\ UNCHANGED <<last, contract>>

\* A task calls name(), symbol(), decimals() or get_balance(amount), and
\* get_or_try_init reads the cell: a value there is returned at once.
LazyCall(t) ==
    /\ tasks[t].pc = "idle"
    /\ \E call \in LazyCalls :
           IF OnceCell_ready(token[call.cell])
           THEN /\ last' = [fn |-> call.fn, cell |-> call.cell, amount |-> call.amount,
                            queried |-> FALSE,
                            ret |-> LazyReturn(call, Ok(token[call.cell].value[1]))]
                /\ UNCHANGED tasks
           ELSE /\ tasks' = [tasks EXCEPT ![t] =
                        [pc |-> "init_slow", fn |-> call.fn, cell |-> call.cell,
                         amount |-> call.amount]]
                /\ UNCHANGED last
    /\ UNCHANGED <<first, between, token, contract>>

\* init_slow: the task takes the cell's lock, or waits for it.
LazyInitialize(t) ==
    /\ tasks[t].pc = "init_slow"
    /\ IF OnceCell_ready(token[tasks[t].cell])
       THEN /\ LazyComplete(t, FALSE, Ok(token[tasks[t].cell].value[1]))
            /\ UNCHANGED <<token, contract>>
       ELSE IF OnceCell_locked(token[tasks[t].cell])
       THEN /\ tasks' = [tasks EXCEPT ![t].pc = "queued"]
            /\ UNCHANGED <<last, token, contract>>
       ELSE LazyAcquire(t)
    /\ UNCHANGED <<first, between>>

\* The lock is free again: a waiting task finds the value, or takes its turn.
LazyWake(t) ==
    /\ tasks[t].pc = "queued"
    /\ ~OnceCell_locked(token[tasks[t].cell])
    /\ IF OnceCell_ready(token[tasks[t].cell])
       THEN /\ LazyComplete(t, FALSE, Ok(token[tasks[t].cell].value[1]))
            /\ UNCHANGED <<token, contract>>
       ELSE LazyAcquire(t)
    /\ UNCHANGED <<first, between>>

\* The contract answers the query of the task's future.
LazyAnswer(t) ==
    /\ tasks[t].pc = "polling"
    /\ \E res \in Answers(tasks[t].cell) :
           /\ contract' = [contract EXCEPT ![tasks[t].cell] = Append(@, res)]
           /\ token' = [token EXCEPT ![tasks[t].cell] = OnceCell_init_finished(@, res)]
           /\ LazyComplete(t, TRUE, res)
    /\ UNCHANGED <<first, between>>

LazyNext ==
    \E t \in Tasks :
        \/ LazyCall(t)
        \/ LazyInitialize(t)
        \/ LazyWake(t)
        \/ LazyAnswer(t)

\* Tasks that share one LazyToken.
LazySpec == Init /\ [][LazyNext]_vars

\* The three digest functions, a signing function of each kind, awaited or
\* synchronous, and the parameter and nonce operations.
AllNext ==
    \/ CallHashTransferWithAuthorization
    \/ CallHashReceiveWithAuthorization
    \/ CallHashCancelAuthorization
    \/ CallSignTransferAuthorization
    \/ CallSignReceiveAuthorizationSync
    \/ CallSignCancelAuthorization
    \/ ParamsNext

\* The callers of the digest engine, of the signing functions, of the
\* parameter model and of the nonce source, their calls in any order.
AllSpec == Init /\ [][AllNext]_vars

(***************************************************************************)
(* Properties of the digest engine                                         *)
(***************************************************************************)

HashFns ==
    {"hash_transfer_with_authorization", "hash_receive_with_authorization",
     "hash_cancel_authorization"}

IsHashCall(c) == c.fn \in HashFns

\* The positions at which two argument lists differ.
FieldsChanged(a, b) == {i \in 1..Len(a) : a[i] # b[i]}

C2_DomainSeparation ==
    (/\ IsHashCall(first)
     /\ last.fn = first.fn
     /\ last.args = first.args
     /\ last.domain_separator # first.domain_separator)
        => last.digest # first.digest

\* The same cancellation hashed under two domain separators.
C2_Witness ==
    /\ first.fn = "hash_cancel_authorization"
    /\ last.fn = first.fn
    /\ last.args = first.args
    /\ last.domain_separator # first.domain_separator

\* C3: for every domain separator and every (from, to, value, valid_after,
\* valid_before, nonce), hash_transfer_with_authorization and
\* hash_receive_with_authorization return different digests.
C3_KindSeparation ==
    (/\ {first.fn, last.fn} = {"hash_transfer_with_authorization",
                               "hash_receive_with_authorization"}
     /\ last.domain_separator = first.domain_separator
     /\ last.args = first.args)
        => last.digest # first.digest

\* The same fields hashed as a transfer and then as a receive.
C3_Witness ==
    /\ first.fn = "hash_transfer_with_authorization"
    /\ last.fn = "hash_receive_with_authorization"
    /\ last.domain_separator = first.domain_separator
    /\ last.args = first.args

\* C4: for the transfer and the receive digest, changing exactly one of from,
\* to, value, valid_after, valid_before, nonce, the domain separator and the
\* other fields kept, changes the digest; value 1000 against 2000 among them.
C4_SingleFieldSensitivity ==
    (/\ first.fn \in {"hash_transfer_with_authorization",
                      "hash_receive_with_authorization"}
     /\ last.fn = first.fn
     /\ last.domain_separator = first.domain_separator
     /\ Cardinality(FieldsChanged(first.args, last.args)) = 1)
        => last.digest # first.digest

\* Value 1000 hashed, then value 2000 with everything else the same; and for
\* each of the six fields the callers make two calls that differ in it alone.
C4_Witness ==
    /\ first.fn = "hash_transfer_with_authorization"
    /\ last.fn = first.fn
    /\ last.domain_separator = first.domain_separator
    /\ FieldsChanged(first.args, last.args) = {3}
    /\ first.args[3] = U256_from(U64(1000))
    /\ last.args[3] = U256_from(U64(2000))
    /\ \A i \in 1..6 : \E p, q \in TransferParams :
           FieldsChanged(TransferValues(p), TransferValues(q)) = {i}

\* C5: for hash_cancel_authorization, the domain separator and the authorizer
\* fixed, two different nonces give two different digests; and likewise two
\* different authorizers, the nonce fixed.
C5_CancelSensitivity ==
    (/\ first.fn = "hash_cancel_authorization"
     /\ last.fn = first.fn
     /\ last.domain_separator = first.domain_separator
     /\ \/ last.args[1] = first.args[1] /\ last.args[2] # first.args[2]
        \/ last.args[1] # first.args[1] /\ last.args[2] = first.args[2])
        => last.digest # first.digest

\* Authorizer 0x..01 under the domain separator of 0x01 bytes: the nonce of
\* 0x03 bytes, then the nonce of 0x04 bytes.
C5_Witness ==
    /\ first.fn = "hash_cancel_authorization"
    /\ last.fn = first.fn
    /\ first.domain_separator = Repeat(1, 32)
    /\ last.domain_separator = Repeat(1, 32)
    /\ first.args = <<Address(1), Repeat(3, 32)>>
    /\ last.args = <<Address(1), Repeat(4, 32)>>

\* C6: each of TRANSFER_WITH_AUTHORIZATION_TYPEHASH,
\* RECEIVE_WITH_AUTHORIZATION_TYPEHASH and CANCEL_AUTHORIZATION_TYPEHASH is
\* keccak256 of its kind's canonical field-signature string.
C6_TypehashConstants ==
    last.fn = "test_typehash_constants"
        => last.computed = << TRANSFER_WITH_AUTHORIZATION_TYPEHASH,
                              RECEIVE_WITH_AUTHORIZATION_TYPEHASH,
                              CANCEL_AUTHORIZATION_TYPEHASH >>

\* The three strings have been hashed.
C6_Witness ==
    /\ last.fn = "test_typehash_constants"
    /\ Len(last.computed) = 3
    /\ \A i \in 1..3 : Len(last.computed[i]) = 32

PublishedTypehash(fn) ==
    CASE fn = "hash_transfer_with_authorization" -> TRANSFER_WITH_AUTHORIZATION_TYPEHASH
      [] fn = "hash_receive_with_authorization" -> RECEIVE_WITH_AUTHORIZATION_TYPEHASH
      [] fn = "hash_cancel_authorization" -> CANCEL_AUTHORIZATION_TYPEHASH

SolTypeOf(fn) ==
    CASE fn = "hash_transfer_with_authorization" -> TransferWithAuthorization
      [] fn = "hash_receive_with_authorization" -> ReceiveWithAuthorization
      [] fn = "hash_cancel_authorization" -> CancelAuthorization

\* An address as a 32-byte word.
AddressWord(a) == Repeat(0, 12) \o a

\* The struct-hash preimage as the specification lays it out.
StructHashPreimage(c) ==
    PublishedTypehash(c.fn)
    \o (IF c.fn = "hash_cancel_authorization"
        THEN AddressWord(c.args[1]) \o c.args[2]
        ELSE AddressWord(c.args[1]) \o AddressWord(c.args[2])
             \o to_be_bytes(c.args[3]) \o to_be_bytes(c.args[4])
             \o to_be_bytes(c.args[5]) \o c.args[6])

\* C7: the struct hash each hash_* function computes is keccak256 of the
\* kind's published type-hash constant followed by the fields in declaration
\* order as 32-byte words, and the type hash derived from the sol! struct is
\* the published constant.
C7_StructHashPreimage ==
    IsHashCall(last)
        => /\ Len(StructHashPreimage(last)) = 32 * (1 + Len(last.args))
           /\ last.struct_hash = keccak256(StructHashPreimage(last))
           /\ eip712_type_hash(SolTypeOf(last.fn)) = PublishedTypehash(last.fn)

\* A transfer hashed whose two time bounds differ, so that their order shows.
C7_Witness ==
    /\ last.fn = "hash_transfer_with_authorization"
    /\ last.args[4] # last.args[5]
    /\ Len(last.struct_hash) = 32

\* C8: for all three kinds the digest is keccak256 of a preimage of exactly
\* 66 bytes: 0x19, 0x01, the 32-byte domain separator, the 32-byte struct
\* hash, in that order.
C8_DigestPreimage ==
    IsHashCall(last)
        => /\ Len(last.data) = 66
           /\ last.data[1] = 25
           /\ last.data[2] = 1
           /\ Len(last.domain_separator) = 32
           /\ SubSeq(last.data, 3, 34) = last.domain_separator
           /\ Len(last.struct_hash) = 32
           /\ SubSeq(last.data, 35, 66) = last.struct_hash
           /\ last.digest = keccak256(last.data)

\* A cancellation hashed whose struct hash is not its domain separator.
C8_Witness ==
    /\ last.fn = "hash_cancel_authorization"
    /\ last.struct_hash # last.domain_separator
    /\ Len(last.digest) = 32

\* The holder and the nonce among the arguments of a digest call.
AuthorizerAndNonce(c) ==
    IF c.fn = "hash_cancel_authorization" THEN <<c.args[1], c.args[2]>>
    ELSE <<c.args[1], c.args[6]>>

\* C25: under one domain separator, the cancel digest of (authorizer, nonce)
\* differs from the transfer digest and from the receive digest of every
\* authorization with from = authorizer and that nonce, whichever of the two
\* is computed first.
C25_CancelNeverTransfer ==
    (/\ IsHashCall(first)
     /\ IsHashCall(last)
     /\ (first.fn = "hash_cancel_authorization") # (last.fn = "hash_cancel_authorization")
     /\ last.domain_separator = first.domain_separator
     /\ AuthorizerAndNonce(last) = AuthorizerAndNonce(first))
        => /\ last.digest # first.digest
           /\ last.struct_hash # first.struct_hash

\* A cancellation hashed, then a transfer of the same holder and nonce.
C25_Witness ==
    /\ first.fn = "hash_cancel_authorization"
    /\ last.fn = "hash_transfer_with_authorization"
    /\ last.domain_separator = first.domain_separator
    /\ last.args[1] = first.args[1]
    /\ last.args[6] = first.args[2]

(***************************************************************************)
(* Properties of the signing functions                                     *)
(***************************************************************************)

TransferSignFns == {"sign_transfer_authorization", "sign_transfer_authorization_sync"}
ReceiveSignFns == {"sign_receive_authorization", "sign_receive_authorization_sync"}
CancelSignFns == {"sign_cancel_authorization", "sign_cancel_authorization_sync"}
SignFns == TransferSignFns \cup ReceiveSignFns \cup CancelSignFns

\* The digest of the hash_* function that matches a signing call.
MatchingDigest(c) ==
    CASE c.fn \in TransferSignFns ->
             hash_transfer_with_authorization(
                 c.domain_separator, c.params.from, c.params.to, c.params.value,
                 U256_from(c.params.valid_after), U256_from(c.params.valid_before),
                 c.params.nonce)
      [] c.fn \in ReceiveSignFns ->
             hash_receive_with_authorization(
                 c.domain_separator, c.params.from, c.params.to, c.params.value,
                 U256_from(c.params.valid_after), U256_from(c.params.valid_before),
                 c.params.nonce)
      [] c.fn \in CancelSignFns ->
             hash_cancel_authorization(c.domain_separator, c.params.authorizer,
                                       c.params.nonce)

\* C9: each of the six signing functions hands the signer exactly the 32-byte
\* digest of the matching hash_* function for (domain_separator, params), by
\* a method that signs the hash as it is.
C9_SignsMatchingDigest ==
    last.fn \in SignFns
        => /\ Len(last.signer_calls) = 1
           /\ last.signer_calls[1].method \in {"sign_hash", "sign_hash_sync"}
           /\ Len(last.signer_calls[1].prehash) = 32
           /\ last.signer_calls[1].prehash = MatchingDigest(last)

\* A receive authorization signed by the synchronous variant.
C9_Witness ==
    /\ last.fn = "sign_receive_authorization_sync"
    /\ last.ret.ok
    /\ last.signer_calls[1].prehash # first.signer_calls[1].prehash

SyncOf(fn) ==
    CASE fn = "sign_transfer_authorization" -> "sign_transfer_authorization_sync"
      [] fn = "sign_receive_authorization" -> "sign_receive_authorization_sync"
      [] fn = "sign_cancel_authorization" -> "sign_cancel_authorization_sync"
      [] OTHER -> "none"

\* a is the suspending and b the synchronous variant, called alike.
VariantPair(a, b) ==
    /\ a.fn \in SignFns
    /\ b.fn = SyncOf(a.fn)
    /\ b.params = a.params
    /\ b.domain_separator = a.domain_separator
    /\ b.signer = a.signer

\* C10: for every kind, key, params and domain separator the suspending and
\* the synchronous variant sign the same digest, and every signature either
\* returns verifies against that digest for the signer's address, two
\* signatures that differ included.
C10_VariantsAgree ==
    /\ (VariantPair(first, last) \/ VariantPair(last, first))
           => last.signer_calls[1].prehash = first.signer_calls[1].prehash
    /\ \A c \in {first, last} :
           (c.fn \in SignFns /\ c.ret.ok)
               => recover_address_from_prehash(c.ret.value, MatchingDigest(c))
                      = c.signer.address

\* The two variants called alike, returning signatures that differ.
C10_Witness ==
    /\ VariantPair(first, last)
    /\ first.ret.ok
    /\ last.ret.ok
    /\ first.ret.value # last.ret.value

C24_DifferentParamsDifferentSignatures ==
    (/\ first.fn \in TransferSignFns \cup ReceiveSignFns
     /\ last.fn = first.fn
     /\ last.signer = first.signer
     /\ last.domain_separator = first.domain_separator
     /\ last.params # first.params
     /\ first.ret.ok
     /\ last.ret.ok)
        => /\ last.ret.value # first.ret.value
           /\ Signature_as_bytes(last.ret.value) # Signature_as_bytes(first.ret.value)

\* test_different_params_produce_different_signatures: value 1000 and value
\* 2000, the signer drawing the same k for both.
C24_Witness ==
    /\ first.fn = "sign_transfer_authorization_sync"
    /\ last.fn = first.fn
    /\ last.signer = first.signer
    /\ last.domain_separator = first.domain_separator
    /\ first.params.value = U256_from(U64(1000))
    /\ last.params.value = U256_from(U64(2000))
    /\ first.ret.ok
    /\ last.ret.ok
    /\ last.ret.value.r = first.ret.value.r

(***************************************************************************)
(* Properties of the submitting functions                                  *)
(***************************************************************************)

SubmitFns ==
    {"transfer_with_authorization", "receive_with_authorization", "cancel_authorization"}

\* C12: in transfer_with_authorization, receive_with_authorization and
\* cancel_authorization the v sent to the contract is 27 when the signature's
\* parity bit is false and 28 when it is true, and the r and s sent are the
\* signature's own.
C12_SubmittedVRS ==
    last.fn \in SubmitFns
        => /\ Len(last.sent) = 1
           /\ LET a == last.sent[1].args
                  n == Len(a)
              IN  /\ a[n - 2] = (IF last.signature.v THEN 28 ELSE 27)
                  /\ a[n - 2] \in {27, 28}
                  /\ a[n - 1] = ScalarBytes(last.signature.r)
                  /\ a[n] = ScalarBytes(last.signature.s)

\* A receive submitted with a signature of even parity after a submission
\* with one of odd parity.
C12_Witness ==
    /\ first.fn \in SubmitFns
    /\ first.signature.v
    /\ last.fn = "receive_with_authorization"
    /\ ~last.signature.v
    /\ last.sent[1].args[7] = 27

\* C13: every call receive_with_authorization submits has its sender set to
\* the `to` address of the authorization submitted.
C13_ReceiveSender ==
    last.fn = "receive_with_authorization"
        => \A i \in 1..Len(last.sent) :
               /\ last.sent[i].method = "receiveWithAuthorization"
               /\ last.sent[i].from = <<last.args.to>>
               /\ last.sent[i].args[2] = last.args.to

\* A receive submitted whose recipient is not the token holder.
C13_Witness ==
    /\ last.fn = "receive_with_authorization"
    /\ Len(last.sent) = 1
    /\ last.args.to # last.args.from

\* C22: the valid_after and valid_before that transfer_with_authorization
\* and receive_with_authorization send are the 64-bit arguments widened to 256
\* bits, the value unchanged, and they are the time bounds of the digest the
\* submitted signature was made over.
C22_TimestampsWidened ==
    last.fn \in {"transfer_with_authorization", "receive_with_authorization"} =>
        LET a == last.sent[1].args
        IN  /\ to_be_bytes(a[4]) = Repeat(0, 24) \o last.args.valid_after
            /\ to_be_bytes(a[5]) = Repeat(0, 24) \o last.args.valid_before
            /\ \E ds \in DomainSeparators :
                   last.signature.s[4] =
                       IF last.fn = "transfer_with_authorization"
                       THEN hash_transfer_with_authorization(ds, a[1], a[2], a[3], a[4], a[5], a[6])
                       ELSE hash_receive_with_authorization(ds, a[1], a[2], a[3], a[4], a[5], a[6])

\* The bounds 0 and u64::MAX submitted after a bound of 3600.
C22_Witness ==
    /\ first.fn = "receive_with_authorization"
    /\ first.args.valid_before = U64(3600)
    /\ last.fn = "transfer_with_authorization"
    /\ last.args.valid_after = U64(0)
    /\ last.args.valid_before = U64_MAX
    /\ last.sent[1].args[5] = <<U64_MAX, U64(0), U64(0), U64(0)>>

\* C26: the three submitting functions pass from, to, value and nonce, or
\* authorizer and nonce, to the contract call as they received them; and
\* transfer_with_authorization and cancel_authorization set no sender on the
\* call, so the account that submits is the provider's, whichever it is.
C26_ForwardedAsReceived ==
    /\ last.fn \in {"transfer_with_authorization", "receive_with_authorization"} =>
           /\ Len(last.sent) = 1
           /\ last.sent[1].args[1] = last.args.from
           /\ last.sent[1].args[2] = last.args.to
           /\ last.sent[1].args[3] = last.args.value
           /\ last.sent[1].args[6] = last.args.nonce
    /\ last.fn = "cancel_authorization" =>
           /\ Len(last.sent) = 1
           /\ last.sent[1].args[1] = last.args.authorizer
           /\ last.sent[1].args[2] = last.args.nonce
    /\ last.fn \in {"transfer_with_authorization", "cancel_authorization"} =>
           last.sent[1].from = <<>>

\* A cancellation submitted after a transfer.
C26_Witness ==
    /\ first.fn = "transfer_with_authorization"
    /\ first.sent[1].from = <<>>
    /\ first.sent[1].args[3] = U256_from(U64(1000))
    /\ last.fn = "cancel_authorization"
    /\ last.sent[1].from = <<>>
    /\ last.sent[1].args[2] = Repeat(4, 32)
    /\ last.ret.ok

(***************************************************************************)
(* Properties of the parameter model and of the nonce source               *)
(***************************************************************************)

ClockReadable(call) == ~call.clock[1].before_epoch

\* valid_before - valid_after == duration_seconds, over the integers.
WindowSpans(valid_after, valid_before, duration_seconds) ==
    /\ ~overflowing(valid_after, duration_seconds)
    /\ wrapping_add(valid_after, duration_seconds) = valid_before

\* C14: for every u64 duration, create_time_bounds returns a pair whose
\* valid_after is the one clock sample it took and whose valid_before lies
\* exactly the duration after it.
C14_TimeBoundsSpanDuration ==
    (last.fn = "create_time_bounds" /\ ClockReadable(last)) =>
        /\ ~last.ret.panicked
        /\ last.clock_reads = 1
        /\ last.ret.value[1] = last.clock[1].secs
        /\ WindowSpans(last.ret.value[1], last.ret.value[2], last.args[1])

\* C15: for every u64 duration, with_duration returns parameters whose
\* valid_after is the one clock sample it took, whose valid_before lies
\* exactly the duration after it, and whose other fields are the arguments.
C15_WithDurationSpansDuration ==
    (last.fn = "TransferAuthorizationParams::with_duration" /\ ClockReadable(last)) =>
        /\ ~last.ret.panicked
        /\ last.clock_reads = 1
        /\ last.ret.value.valid_after = last.clock[1].secs
        /\ WindowSpans(last.ret.value.valid_after, last.ret.value.valid_before, last.args[4])
        /\ last.ret.value.from = last.args[1]
        /\ last.ret.value.to = last.args[2]
        /\ last.ret.value.value = last.args[3]
        /\ last.ret.value.nonce = last.args[5]

\* C16: without_time_bounds returns parameters with valid_after = 0 and
\* valid_before = u64::MAX whose other fields are the arguments.
C16_WithoutTimeBounds ==
    last.fn = "TransferAuthorizationParams::without_time_bounds" =>
        /\ ~last.ret.panicked
        /\ last.ret.value.valid_after = U64(0)
        /\ last.ret.value.valid_before = Repeat(255, 8)
        /\ last.ret.value.from = last.args[1]
        /\ last.ret.value.to = last.args[2]
        /\ last.ret.value.value = last.args[3]
        /\ last.ret.value.nonce = last.args[4]

C16_Witness ==
    /\ last.fn = "TransferAuthorizationParams::without_time_bounds"
    /\ last.args[1] # last.args[2]
    /\ last.ret.value.nonce = Repeat(3, 32)

\* C17: the two new constructors reject nothing and store every field as
\* given, an empty or inverted window and equal addresses included.
C17_NewStoresAsGiven ==
    /\ last.fn = "TransferAuthorizationParams::new" =>
           /\ ~last.ret.panicked
           /\ last.ret.value.from = last.args[1]
           /\ last.ret.value.to = last.args[2]
           /\ last.ret.value.value = last.args[3]
           /\ last.ret.value.valid_after = last.args[4]
           /\ last.ret.value.valid_before = last.args[5]
           /\ last.ret.value.nonce = last.args[6]
    /\ last.fn = "CancelAuthorizationParams::new" =>
           /\ ~last.ret.panicked
           /\ last.ret.value.authorizer = last.args[1]
           /\ last.ret.value.nonce = last.args[2]

C17_Witness ==
    /\ first.fn = "CancelAuthorizationParams::new"
    /\ last.fn = "TransferAuthorizationParams::new"
    /\ last.args[1] = last.args[2]
    /\ u64_lt(last.args[5], last.args[4])
    /\ ~last.ret.panicked

C19_SignerInvokedOnce ==
    last.fn \in SignFns =>
        /\ Len(last.signer_calls) = 1
        /\ last.ret = last.signer_calls[1].result

C19_Witness ==
    /\ first.fn \in SignFns
    /\ first.ret.ok
    /\ last.fn \in SignFns
    /\ ~last.signer_calls[1].result.ok
    /\ ~last.ret.ok

\* C20: the three hash_* functions return a digest of 32 bytes for every
\* input, equal addresses, a zero value and an empty window included.
C20_HashIsTotal ==
    IsHashCall(last) =>
        /\ Len(last.digest) = 32
        /\ \A i \in 1..32 : last.digest[i] \in 0..255

C20_Witness ==
    /\ first.fn = "hash_cancel_authorization"
    /\ Len(first.digest) = 32
    /\ last.fn = "hash_transfer_with_authorization"
    /\ last.args[1] = last.args[2]
    /\ last.args[3] = U256_from(U64(0))
    /\ u64_lt(last.args[5][1], last.args[4][1])
    /\ Len(last.digest) = 32

(***************************************************************************)
(* Properties of overlapping calls and of calls in sequence                *)
(***************************************************************************)

\* What the task's call has done, as a run of its signing function.
RunOf(task) == [signer_calls |-> task.signer_calls, ret |-> task.ret]

\* C21: however the signing calls of the tasks interleave, each call signs
\* the digest of its own params, and what it does and returns is one of the
\* runs the same call has alone; a signature it returns verifies against
\* that digest.
C21_ConcurrentSigningIsolated ==
    \A t \in Tasks :
        tasks[t].pc = "returned" =>
            LET self == tasks[t]
                alone == hash_transfer_with_authorization(
                             self.domain_separator, self.params.from, self.params.to,
                             self.params.value, U256_from(self.params.valid_after),
                             U256_from(self.params.valid_before), self.params.nonce)
            IN  /\ self.digest = alone
                /\ self.signer_calls[1].prehash = alone
                /\ RunOf(self) \in sign_transfer_authorization(
                                       self.params, self.domain_separator, self.signer)
                /\ self.ret.ok =>
                       recover_address_from_prehash(self.ret.value, alone)
                           = self.signer.address

\* Two authorizations of one authorizer, different in nonce, each signed
\* while the other call was under way.
C21_Witness ==
    /\ tasks[1].pc = "returned"
    /\ tasks[2].pc = "awaiting"
    /\ tasks[1].params.from = tasks[2].params.from
    /\ tasks[1].params.nonce # tasks[2].params.nonce
    /\ tasks[1].ret.ok
    /\ tasks[2].signer_calls[1].result.ok

AccessorFns == {"LazyToken::name", "LazyToken::symbol", "LazyToken::decimals"}

\* The successful answers among those the contract gave to one query.
OkAnswers(method) == {i \in 1..Len(contract[method]) : contract[method][i].ok}

\* The tasks whose query of one kind is with the contract.
Polling(method) == {t \in Tasks : tasks[t].pc = "polling" /\ tasks[t].cell = method}

\* C27: each of name, symbol and decimals is fetched successfully at most
\* once; after the success the contract is not asked for it again; a cell
\* that holds a value holds the one its own accessor fetched; and a
\* successful call returns the value of its cell.
C27_FetchedOnce ==
    /\ \A field \in Accessors :
           /\ Cardinality(OkAnswers(field)) <= 1
           /\ \A i \in OkAnswers(field) : i = Len(contract[field])
           /\ token[field].value # <<>> =>
                  /\ Polling(field) = {}
                  /\ OkAnswers(field) # {}
                  /\ token[field].value = <<contract[field][Len(contract[field])].value>>
    /\ (last.fn \in AccessorFns /\ last.ret.ok) =>
           /\ token[last.cell].value = <<last.ret.value>>
           /\ "LazyToken::" \o last.cell = last.fn

\* symbol() answered from the cell, the contract asked once for it and once
\* for another field, and the third cell still empty.
C27_Witness ==
    /\ last.fn = "LazyToken::symbol"
    /\ ~last.queried
    /\ last.ret = Ok("DAI")
    /\ contract["symbol"] = <<Ok("DAI")>>
    /\ token["name"].value = <<"Dai Stablecoin">>
    /\ token["decimals"].value = <<>>

\* C28: a failed query leaves the cell empty and its error is what the call
\* returns; no call returns an error without having asked the contract
\* itself, and a cell none of whose queries succeeded holds nothing.
C28_FailureNotCached ==
    /\ \A field \in Accessors : OkAnswers(field) = {} => token[field].value = <<>>
    /\ (last.fn \in AccessorFns /\ ~last.ret.ok) =>
           /\ last.queried
           /\ contract[last.cell] # <<>>
           /\ last.ret = contract[last.cell][Len(contract[last.cell])]
    /\ (last.fn \in AccessorFns /\ ~last.queried) => last.ret.ok

\* name() failed, and the next call of name() asked the contract again.
C28_Witness ==
    /\ last.fn = "LazyToken::name"
    /\ last.queried
    /\ contract["name"] = <<Err("transport"), last.ret>>
    /\ last.ret.ok
    /\ token["name"].value = <<last.ret.value>>

\* C29: however the calls of the tasks interleave, one future at most is
\* polled for a cell at a time, the one of the task that holds its lock; the
\* cell holds at most one value, one that a query fetched; and a call that
\* succeeds returns the value of the cell.
C29_OneInitializer ==
    /\ \A field \in Accessors :
           /\ Cardinality(Polling(field)) <= 1
           /\ \A t \in Polling(field) : token[field].initializer = t
           /\ token[field].initializer # 0 => Polling(field) = {token[field].initializer}
           /\ Len(token[field].value) <= 1
           /\ token[field].value # <<>> =>
                  /\ \E i \in OkAnswers(field) :
                         token[field].value = <<contract[field][i].value>>
                  /\ \A i \in OkAnswers(field) :
                         token[field].value = <<contract[field][i].value>>
    /\ (last.fn \in AccessorFns /\ last.ret.ok) =>
           token[last.cell].value = <<last.ret.value>>

\* Two tasks in decimals() on an empty cell: the query of the first failed,
\* the second task has taken its turn and the first, calling again, waits.
C29_Witness ==
    /\ tasks[1].pc = "queued"
    /\ tasks[2].pc = "polling"
    /\ tasks[1].cell = "decimals"
    /\ tasks[2].cell = "decimals"
    /\ tasks[2].fn = "LazyToken::decimals"
    /\ contract["decimals"] = <<Err("transport")>>
    /\ last.fn = "LazyToken::decimals"
    /\ ~last.ret.ok
    /\ token["decimals"].value = <<>>

\* C30: get_balance(amount) returns the decimal whose unscaled integer is
\* amount, all 256 bits of it and not negative, and whose scale is the token's
\* decimals; when decimals cannot be fetched it returns that error and no
\* value.
C30_GetBalance ==
    last.fn = "LazyToken::get_balance" =>
        IF last.ret.ok
        THEN LET magnitude == last.ret.value.int_val.magnitude
             IN  /\ token["decimals"].value = <<last.ret.value.scale>>
                 /\ last.ret.value.int_val.sign # "Minus"
                 /\ Len(magnitude) <= 32
                 /\ Repeat(0, 32 - Len(magnitude)) \o magnitude = to_be_bytes(last.amount)
                 /\ magnitude # <<>> => magnitude[1] # 0
        ELSE /\ last.queried
             /\ last.ret = contract["decimals"][Len(contract["decimals"])]
             /\ DOMAIN last.ret = {"ok", "error"}
             /\ token["decimals"].value = <<>>

\* The largest amount of a token of 18 decimals, after a failure to fetch them.
C30_Witness ==
    /\ last.fn = "LazyToken::get_balance"
    /\ last.amount = <<U64_MAX, U64_MAX, U64_MAX, U64_MAX>>
    /\ last.ret.ok
    /\ last.ret.value.scale = 18
    /\ last.ret.value.int_val = [sign |-> "Plus", magnitude |-> Repeat(255, 32)]
    /\ contract["decimals"] = <<Err("transport"), Ok(18)>>

====
